---- MODULE Spec2Model ----
(***************************************************************************)
(* Model of indicators/indicators.py: the paginated hourly fetch           *)
(* (fetch_full_ohlcv), the weekly resample, the indicator columns and the  *)
(* classification of the latest weekly row (get_indicators).               *)
(*                                                                         *)
(* Floats are modelled as exact values: NaN, +/-infinity, or a rational    *)
(* <<"num", n, d>> with d > 0.  Prices and volumes are integers.           *)
(***************************************************************************)
EXTENDS Integers, Sequences, FiniteSets, TLC

VARIABLES
    pc,           \* position in get_indicators / fetch_full_ohlcv
    total_hours,  \* parameter of fetch_full_ohlcv
    all_data,     \* accumulated bars (list of dicts)
    toTs,         \* pagination cursor: <<>> is None, <<t>> is the integer t
    requests,     \* number of page requests issued so far
    stop,         \* which `break` of the loop has run ("none" when none has)
    late,         \* TRUE once a request was issued after the loop had to stop
    newest,       \* time of the last bar of the first page received, <<>> if none
    exc,          \* exception in flight ("none" when there is none)
    fetch_raised, \* TRUE when fetch_full_ohlcv ended by raising
    df,           \* the Series returned by fetch_full_ohlcv
    weekly_df,    \* the weekly Series after resample(...).agg(...).dropna()
    latest,       \* latest row of the derived columns
    obv,          \* the OBV column
    result        \* return value of get_indicators

vars == <<pc, total_hours, all_data, toTs, requests, stop, late, newest, exc,
          fetch_raised, df, weekly_df, latest, obv, result>>

-----------------------------------------------------------------------------
(* Bounds of the model *)

MaxTotalHours == 3   \* largest total_hours requested
MaxBatch == 3        \* largest page the provider returns
MaxHistory == 5      \* number of hourly bars the provider holds
MaxGap == 1          \* hours the provider may skip below the cursor

(* Calendar constants of the hourly endpoint and of the 'W-MON' rule *)

HourSeconds == 3600
WeekSeconds == 604800
\* 'W-MON' bins are closed and labelled on the right and, for intraday rows,
\* include the whole Monday: week k is [Tuesday 00:00, next Tuesday 00:00).
\* 1970-01-06 00:00 (a Tuesday) is 432000 s after the epoch.
TuesdayAnchor == 432000

-----------------------------------------------------------------------------
(* The provider: hourly bars for the hours OldestHour..NowHour *)

NowHour == (TuesdayAnchor \div HourSeconds) + 2
OldestHour == NowHour - MaxHistory + 1

Max2(a, b) == IF a >= b THEN a ELSE b
Min2(a, b) == IF a <= b THEN a ELSE b

\* One bar of the provider's JSON for the hour h ('volumefrom' is the column
\* renamed to 'volume' at the end of fetch_full_ohlcv).  The seed s varies
\* the synthetic prices; low <= open, close <= high and volume >= 0.
SeedBar(h, s) ==
    LET c == 10 + ((h + s) % 3)
        o == 10 + ((h + 2 * s + 1) % 3)
    IN  [time |-> h * HourSeconds, open |-> o,
         high |-> Max2(o, c) + ((h + s) % 2),
         low |-> Min2(o, c) - ((h + s + 1) % 2),
         close |-> c, volume |-> ((h + s) % 3)]

MarketBar(h) == SeedBar(h, 0)

\* The ascending page of the hours lo..hi.
Page(lo, hi) == [i \in 1..(hi - lo + 1) |-> MarketBar(lo + i - 1)]

\* `if toTs:` -- None and 0 are both falsy.
Truthy(t) == t # <<>> /\ t[1] # 0

\* Highest hour the provider may return for the cursor: the latest bar when
\* the URL carries no toTs, else the last bar at or before toTs.
TopHour(t) == IF Truthy(t) THEN Min2(NowHour, t[1] \div HourSeconds) ELSE NowHour

-----------------------------------------------------------------------------
(* fetch_full_ohlcv *)

\* Mutation: the loop test admits one more iteration.
WhileCondInclusive(data, total) == Len(data) <= total

WhileCond(data, total) == Len(data) < total

\* Mutation: the cursor is not moved below the oldest bar of the page.
NextCursorSame(batch) == batch[1].time

NextCursor(batch) == batch[1].time - 1

Prepend(batch, data) == batch \o data

Truncate(data, total) == SubSeq(data, 1, Min2(Len(data), total))

\* pd.DataFrame(rows): the columns are the keys of the dicts, none for [].
FrameColumns(rows) == IF rows = <<>> THEN {} ELSE DOMAIN rows[1]

\* df['time'] raises KeyError when the frame has no such column.
TimeColumnError(rows) == "time" \notin FrameColumns(rows)

-----------------------------------------------------------------------------
(* Float values *)

NaN == <<"nan">>
Real == <<"real">>     \* a finite value whose magnitude is not represented
V(n) == <<"num", n, 1>>
Inf(s) == <<"inf", s>>

IsNaN(v) == v = NaN
IsInf(v) == v[1] = "inf"

Sign(n) == IF n > 0 THEN 1 ELSE IF n < 0 THEN -1 ELSE 0
Abs(n) == IF n < 0 THEN -n ELSE n

Rat(n, d) == IF d < 0 THEN <<"num", -n, -d>> ELSE <<"num", n, d>>

FNeg(a) ==
    IF IsNaN(a) THEN NaN
    ELSE IF IsInf(a) THEN Inf(-a[2])
    ELSE Rat(-a[2], a[3])

FAdd(a, b) ==
    IF IsNaN(a) \/ IsNaN(b) THEN NaN
    ELSE IF IsInf(a) /\ IsInf(b) THEN (IF a[2] = b[2] THEN a ELSE NaN)
    ELSE IF IsInf(a) THEN a
    ELSE IF IsInf(b) THEN b
    ELSE Rat(a[2] * b[3] + b[2] * a[3], a[3] * b[3])

FSub(a, b) == FAdd(a, FNeg(b))

FMul(a, b) ==
    IF IsNaN(a) \/ IsNaN(b) THEN NaN
    ELSE IF IsInf(a) /\ IsInf(b) THEN Inf(a[2] * b[2])
    ELSE IF IsInf(a) THEN (IF b[2] = 0 THEN NaN ELSE Inf(a[2] * Sign(b[2])))
    ELSE IF IsInf(b) THEN (IF a[2] = 0 THEN NaN ELSE Inf(b[2] * Sign(a[2])))
    ELSE Rat(a[2] * b[2], a[3] * b[3])

\* Mutation: every division by zero is NaN.
FDivZeroNaN(a, b) ==
    IF IsNaN(a) \/ IsNaN(b) THEN NaN
    ELSE IF IsInf(a) /\ IsInf(b) THEN NaN
    ELSE IF IsInf(a) THEN Inf(a[2] * (IF b[2] < 0 THEN -1 ELSE 1))
    ELSE IF IsInf(b) THEN V(0)
    ELSE IF b[2] = 0 THEN NaN
    ELSE Rat(a[2] * b[3], a[3] * b[2])

\* IEEE division: x/0 is +/-inf for x # 0 and NaN for x = 0.
FDiv(a, b) ==
    IF IsNaN(a) \/ IsNaN(b) THEN NaN
    ELSE IF IsInf(a) /\ IsInf(b) THEN NaN
    ELSE IF IsInf(a) THEN Inf(a[2] * (IF b[2] < 0 THEN -1 ELSE 1))
    ELSE IF IsInf(b) THEN V(0)
    ELSE IF b[2] = 0 THEN (IF a[2] = 0 THEN NaN ELSE Inf(Sign(a[2])))
    ELSE Rat(a[2] * b[3], a[3] * b[2])

\* a > b; any comparison with NaN is False.
FGt(a, b) ==
    IF IsNaN(a) \/ IsNaN(b) THEN FALSE
    ELSE IF IsInf(a) /\ IsInf(b) THEN a[2] > b[2]
    ELSE IF IsInf(a) THEN a[2] > 0
    ELSE IF IsInf(b) THEN b[2] < 0
    ELSE a[2] * b[3] > b[2] * a[3]

FLt(a, b) == FGt(b, a)

-----------------------------------------------------------------------------
(* Weekly resample: df.resample('W-MON').agg({...}).dropna() *)

\* Index of the weekly bin that holds the timestamp t.
Period(t) == (t - TuesdayAnchor) \div WeekSeconds

RECURSIVE SeqMax(_, _)
SeqMax(s, f) ==
    IF Len(s) = 1 THEN s[1][f] ELSE Max2(s[1][f], SeqMax(Tail(s), f))

RECURSIVE SeqMin(_, _)
SeqMin(s, f) ==
    IF Len(s) = 1 THEN s[1][f] ELSE Min2(s[1][f], SeqMin(Tail(s), f))

RECURSIVE SeqSum(_, _)
SeqSum(s, f) == IF s = <<>> THEN 0 ELSE s[1][f] + SeqSum(Tail(s), f)

\* The rows of one bin, in the order of the frame.
BinRows(rows, k) == SelectSeq(rows, LAMBDA r : Period(r.time) = k)

\* 'first', 'max', 'min', 'last' of an empty bin are NaN, 'sum' is 0.
AggFirst(g, f) == IF g = <<>> THEN NaN ELSE V(g[1][f])
AggLast(g, f) == IF g = <<>> THEN NaN ELSE V(g[Len(g)][f])
AggMax(g, f) == IF g = <<>> THEN NaN ELSE V(SeqMax(g, f))
AggMin(g, f) == IF g = <<>> THEN NaN ELSE V(SeqMin(g, f))
AggSum(g, f) == V(SeqSum(g, f))

AggRow(rows, k) ==
    LET g == BinRows(rows, k)
    IN  [week |-> k, open |-> AggFirst(g, "open"), high |-> AggMax(g, "high"),
         low |-> AggMin(g, "low"), close |-> AggLast(g, "close"),
         volume |-> AggSum(g, "volume")]

\* One row per bin from the bin of the earliest row to that of the latest.
Aggregate(rows) ==
    LET ks == {Period(rows[i].time) : i \in 1..Len(rows)}
        k0 == CHOOSE k \in ks : \A j \in ks : k <= j
        k1 == CHOOSE k \in ks : \A j \in ks : k >= j
    IN  [i \in 1..(k1 - k0 + 1) |-> AggRow(rows, k0 + i - 1)]

RowHasNaN(r) ==
    IsNaN(r.open) \/ IsNaN(r.high) \/ IsNaN(r.low) \/ IsNaN(r.close) \/ IsNaN(r.volume)

\* Mutation: no row is dropped.
DropNaKeepAll(rows) == rows

DropNa(rows) == SelectSeq(rows, LAMBDA r : ~RowHasNaN(r))

Resample(rows) == DropNa(Aggregate(rows))

-----------------------------------------------------------------------------
(* Indicator columns of the weekly frame w (its cells are numbers after    *)
(* dropna; Cl(w, i) is the close of row i as an integer)                   *)

Cl(w, i) == w[i].close[2]
Hi(w, i) == w[i].high[2]
Lo(w, i) == w[i].low[2]
Vol(w, i) == w[i].volume[2]

RsiPeriod == 14
SmaPeriod == 20
StochPeriod == 14
StochSmooth == 3
AtrPeriod == 14
AdxPeriod == 14

\* Sum of f[j] for j in lo..hi.
RECURSIVE SumRange(_, _, _)
SumRange(f, lo, hi) == IF lo > hi THEN 0 ELSE f[hi] + SumRange(f, lo, hi - 1)

\* prices.diff(): NaN at the first row.
Delta(w, i) == IF i = 1 THEN NaN ELSE V(Cl(w, i) - Cl(w, i - 1))

\* delta.where(delta > 0, 0): the delta where the test holds, else 0 (also
\* for the NaN of the first row, whose test is False).
Gain(w, i) == IF FGt(Delta(w, i), V(0)) THEN Delta(w, i)[2] ELSE 0
\* -delta.where(delta < 0, 0)
Loss(w, i) == IF FLt(Delta(w, i), V(0)) THEN -(Delta(w, i)[2]) ELSE 0

\* x.rolling(window=p).mean() at row i: NaN until p rows are available.
RollingMean(f, i, p) == IF i < p THEN NaN ELSE Rat(SumRange(f, i - p + 1, i), p)

\* calculate_rsi at row i.
RSI(w, i) ==
    LET gain == RollingMean([j \in 1..Len(w) |-> Gain(w, j)], i, RsiPeriod)
        loss == RollingMean([j \in 1..Len(w) |-> Loss(w, j)], i, RsiPeriod)
        rs == FDiv(gain, loss)
    IN  FSub(V(100), FDiv(V(100), FAdd(V(1), rs)))

\* calculate_sma at row i.
SMA(w, i) == RollingMean([j \in 1..Len(w) |-> Cl(w, j)], i, SmaPeriod)

\* VWAP at row i: cumulative sum(close * volume) / cumulative sum(volume).
VWAP(w, i) ==
    FDiv(V(SumRange([j \in 1..Len(w) |-> Cl(w, j) * Vol(w, j)], 1, i)),
         V(SumRange([j \in 1..Len(w) |-> Vol(w, j)], 1, i)))

RECURSIVE RangeMin(_, _, _)
RangeMin(f, lo, hi) == IF lo = hi THEN f[lo] ELSE Min2(f[hi], RangeMin(f, lo, hi - 1))
RECURSIVE RangeMax(_, _, _)
RangeMax(f, lo, hi) == IF lo = hi THEN f[lo] ELSE Max2(f[hi], RangeMax(f, lo, hi - 1))

\* STOCHk at row i.
StochK(w, i) ==
    IF i < StochPeriod THEN NaN
    ELSE LET low_14 == RangeMin([j \in 1..Len(w) |-> Lo(w, j)], i - StochPeriod + 1, i)
             high_14 == RangeMax([j \in 1..Len(w) |-> Hi(w, j)], i - StochPeriod + 1, i)
         IN  FMul(V(100), FDiv(V(Cl(w, i) - low_14), V(high_14 - low_14)))

\* STOCHd at row i: rolling(3).mean() of STOCHk, NaN when a row of the
\* window is missing or NaN.
StochD(w, i) ==
    IF i < StochSmooth THEN NaN
    ELSE FDiv(FAdd(FAdd(StochK(w, i - 2), StochK(w, i - 1)), StochK(w, i)),
              V(StochSmooth))

\* True range of row i; the row-wise max skips the NaN of the first row.
TrueRange(w, i) ==
    LET tr1 == Hi(w, i) - Lo(w, i)
    IN  IF i = 1 THEN tr1
        ELSE Max2(tr1, Max2(Abs(Hi(w, i) - Cl(w, i - 1)), Abs(Lo(w, i) - Cl(w, i - 1))))

ATR(w, i) == RollingMean([j \in 1..Len(w) |-> TrueRange(w, j)], i, AtrPeriod)

\* Mutation: the volume is subtracted on a rise and added on a fall.
OBVNextFlipped(last, c, cprev, v) ==
    IF c > cprev THEN last - v
    ELSE IF c < cprev THEN last + v
    ELSE last

\* One step of the OBV loop: the entry appended for a row with close c and
\* volume v after a row with close cprev, `last` being obv[-1].
OBVNext(last, c, cprev, v) ==
    IF c > cprev THEN last + v
    ELSE IF c < cprev THEN last - v
    ELSE last

\* The OBV loop: obv = [0], then one entry for each of the rows 2..n.
RECURSIVE OBVList(_, _)
OBVList(w, n) ==
    IF n <= 1 THEN <<0>>
    ELSE LET prev == OBVList(w, n - 1)
         IN  Append(prev, OBVNext(prev[Len(prev)], Cl(w, n), Cl(w, n - 1), Vol(w, n)))

BandWidth == 2
AdxStrong == 25

\* p*sum(x^2) - sum(x)^2 over the p rows ending at i: p*(p-1) times the
\* sample variance (rolling(p).std() squared, ddof = 1).
ScaledVar(w, i, p) ==
    LET S == SumRange([j \in 1..Len(w) |-> Cl(w, j)], i - p + 1, i)
        Q == SumRange([j \in 1..Len(w) |-> Cl(w, j) * Cl(w, j)], i - p + 1, i)
    IN  p * Q - S * S

\* BBL = sma_20 - 2 * std_20: NaN until 20 rows, then a finite value.
BBL(w, i) == IF i < SmaPeriod THEN NaN ELSE Real

\* close > BBL at row i (i >= 20), decided without the square root:
\* 2*std > sma - close, with d = 20*(sma - close).
CloseAboveBBL(w, i) ==
    LET p == SmaPeriod
        d == SumRange([j \in 1..Len(w) |-> Cl(w, j)], i - p + 1, i) - p * Cl(w, i)
    IN  IF i < p THEN FALSE
        ELSE IF d < 0 THEN TRUE
        ELSE BandWidth * BandWidth * p * ScaledVar(w, i, p) > (p - 1) * d * d

\* ADX_14 = rolling(14).std() / rolling(14).mean() * 100.
ADX(w, i) == IF i < AdxPeriod THEN NaN ELSE Real

\* ADX_14 > 25 at row i (i >= 14; the mean of positive closes is positive):
\* std/mean*100 > 25, squared.
ADXAboveStrong(w, i) ==
    LET p == AdxPeriod
        S == SumRange([j \in 1..Len(w) |-> Cl(w, j)], i - p + 1, i)
    IN  IF i < p \/ S <= 0 THEN FALSE
        ELSE LET r == 100 \div AdxStrong   \* 100/25 = 4 exactly: 4*std > mean
             IN  r * r * p * ScaledVar(w, i, p) > (p - 1) * S * S

\* prices.ewm(span).mean() (adjust=True, min_periods=0) is defined from the
\* first row on: a weighted mean, with positive weights, of all closes so far.
EMA(w, i) == Real

AllEqual(w, i) == \A j \in 1..i : Cl(w, j) = Cl(w, 1)

\* The possible outcomes of close > EMA_50 at row i.  The weighted mean lies
\* between the least and the greatest close, strictly unless all are equal
\* (and then it equals the close); in between both outcomes are admitted.
CloseAboveEMA(w, i) ==
    IF AllEqual(w, i) THEN {FALSE}
    ELSE IF \A j \in 1..i : Cl(w, j) <= Cl(w, i) THEN {TRUE}
    ELSE IF \A j \in 1..i : Cl(w, j) >= Cl(w, i) THEN {FALSE}
    ELSE BOOLEAN

\* The possible outcomes of MACD > signal at row i: both are 0 for a
\* constant close; otherwise both outcomes are admitted.
MACDAboveSignal(w, i) == IF AllEqual(w, i) THEN {FALSE} ELSE BOOLEAN

\* latest = weekly_df.iloc[-1], with the outcome of the comparisons on the
\* columns whose magnitude is not represented.
LatestRow(w, emaAbove, macdAbove) ==
    LET n == Len(w)
    IN  [close |-> w[n].close,
         RSI_14 |-> RSI(w, n),
         SMA_20 |-> SMA(w, n),
         EMA_50 |-> EMA(w, n),
         VWAP |-> VWAP(w, n),
         BBL |-> BBL(w, n),
         MACD |-> EMA(w, n),
         MACDs |-> EMA(w, n),
         STOCHk |-> StochK(w, n),
         STOCHd |-> StochD(w, n),
         ATRr_14 |-> ATR(w, n),
         OBV |-> V(OBVList(w, n)[n]),
         ADX_14 |-> ADX(w, n),
         gt |-> [EMA_50 |-> emaAbove, MACD |-> macdAbove,
                 BBL |-> CloseAboveBBL(w, n), ADX |-> ADXAboveStrong(w, n)]]

-----------------------------------------------------------------------------
(* Classification of the latest row *)

Bullish == "Bullish"   \* the green marker
Bearish == "Bearish"   \* the red marker
Neutral == "Neutral"   \* the yellow marker

\* classify(value, indicator), a closure over `latest`.
Classify(value, indicator, lat) ==
    IF IsNaN(value) THEN Neutral
    ELSE IF indicator = "RSI" THEN
        (IF FGt(value, V(60)) THEN Bullish
         ELSE IF FLt(value, V(40)) THEN Bearish ELSE Neutral)
    ELSE IF indicator = "MACD" THEN
        (IF lat.gt.MACD THEN Bullish ELSE Bearish)
    ELSE IF indicator = "Stoch" THEN
        (IF FGt(lat.STOCHk, lat.STOCHd) THEN Bullish ELSE Bearish)
    ELSE IF indicator = "ADX" THEN
        (IF lat.gt.ADX THEN "Strong" ELSE "Weak")
    ELSE Neutral

\* f"{x:.2f}": the value in hundredths, rounded to the nearest.
Format2(v) == <<"fmt", (2 * 100 * v[2] + v[3]) \div (2 * v[3])>>
NotAvailable == <<"N/A">>

\* The entries of the dict literal `indicators` that carry a signal label.
SignalLabels(lat) ==
    [RSI |-> Classify(lat.RSI_14, "RSI", lat),
     MACD |-> Classify(lat.MACD, "MACD", lat),
     Stochastic |-> Classify(lat.STOCHk, "Stoch", lat),
     BB |-> IF ~IsNaN(lat.BBL) /\ lat.gt.BBL THEN Bullish ELSE Neutral,
     SMA20 |-> IF ~IsNaN(lat.SMA_20) /\ FGt(lat.close, lat.SMA_20) THEN Bullish ELSE Bearish,
     EMA50 |-> IF ~IsNaN(lat.EMA_50) /\ lat.gt.EMA_50 THEN Bullish ELSE Bearish,
     VWAP |-> IF ~IsNaN(lat.VWAP) /\ FGt(lat.close, lat.VWAP) THEN Bullish ELSE Bearish,
     ADX |-> Classify(lat.ADX_14, "ADX", lat)]

\* The entries that carry a formatted value.
ValueStrings(lat) ==
    [ATR |-> IF ~IsNaN(lat.ATRr_14) THEN Format2(lat.ATRr_14) ELSE NotAvailable,
     OBV |-> IF ~IsNaN(lat.OBV) THEN Format2(lat.OBV) ELSE NotAvailable]

\* Mutation: the ATR and OBV entries are left out when the ATR is undefined.
IndicatorMapOmitUndefined(lat) ==
    IF IsNaN(lat.ATRr_14) THEN SignalLabels(lat)
    ELSE SignalLabels(lat) @@ ValueStrings(lat)

\* The dict literal `indicators`.
IndicatorMap(lat) == SignalLabels(lat) @@ ValueStrings(lat)

-----------------------------------------------------------------------------
(* State machine *)

None == [kind |-> "None", map |-> <<>>]
Unset == [kind |-> "unset", map |-> <<>>]
Mapping(m) == [kind |-> "mapping", map |-> m]

Blank ==
    /\ all_data = <<>>
    /\ toTs = <<>>
    /\ requests = 0
    /\ stop = "none"
    /\ late = FALSE
    /\ newest = <<>>
    /\ exc = "none"
    /\ fetch_raised = FALSE
    /\ df = <<>>
    /\ weekly_df = <<>>
    /\ latest = <<>>
    /\ obv = <<>>
    /\ result = Unset

\* get_indicators(symbol) has just called fetch_full_ohlcv.
Init ==
    /\ pc = "while"
    /\ total_hours \in 1..MaxTotalHours
    /\ Blank

\* A request issued although the loop had to stop is recorded in `late`.
Issue ==
    /\ requests' = requests + 1
    /\ late' = (late \/ stop # "none" \/ Len(all_data) >= total_hours)

\* The statement executed after `break`.
AfterBreak == "build"

Break(why) ==
    /\ Issue
    /\ stop' = why
    /\ pc' = AfterBreak
    /\ UNCHANGED <<total_hours, all_data, toTs, newest, exc, fetch_raised, df,
                   weekly_df, latest, obv, result>>

\* requests.get or response.json() throws: the except clause breaks.
RequestThrows ==
    /\ pc = "while"
    /\ WhileCond(all_data, total_hours)
    /\ Break("exception")

\* data.get("Response") != "Success": break.
RequestNotSuccess ==
    /\ pc = "while"
    /\ WhileCond(all_data, total_hours)
    /\ Break("response")

\* Response is Success and Data.Data is empty or missing: break.
RequestEmpty ==
    /\ pc = "while"
    /\ WhileCond(all_data, total_hours)
    /\ Break("empty")

\* A page of 1..MaxBatch bars at or before the cursor is received.
RequestPage ==
    /\ pc = "while"
    /\ WhileCond(all_data, total_hours)
    /\ \E hi \in (TopHour(toTs) - MaxGap)..TopHour(toTs), k \in 1..MaxBatch :
          /\ hi >= OldestHour
          /\ LET batch_data == Page(Max2(OldestHour, hi - k + 1), hi)
             IN  /\ all_data' = Prepend(batch_data, all_data)
                 /\ toTs' = <<NextCursor(batch_data)>>
                 /\ newest' = IF requests = 0
                              THEN <<batch_data[Len(batch_data)].time>>
                              ELSE newest
    /\ Issue
    /\ UNCHANGED <<pc, total_hours, stop, exc, fetch_raised, df, weekly_df,
                   latest, obv, result>>

\* The loop condition is false: fall through to the DataFrame construction.
LoopExit ==
    /\ pc = "while"
    /\ ~WhileCond(all_data, total_hours)
    /\ pc' = "build"
    /\ UNCHANGED <<total_hours, all_data, toTs, requests, stop, late, newest,
                   exc, fetch_raised, df, weekly_df, latest, obv, result>>

\* Lines 50-66: the frame of the first total_hours bars, indexed by time.
BuildFrame ==
    /\ pc = "build"
    /\ LET rows == Truncate(all_data, total_hours)
       IN  IF TimeColumnError(rows)
           THEN /\ exc' = "KeyError"
                /\ fetch_raised' = TRUE
                /\ pc' = "except"
                /\ df' = df
           ELSE /\ df' = rows
                /\ pc' = "fetched"
                /\ UNCHANGED <<exc, fetch_raised>>
    /\ UNCHANGED <<total_hours, all_data, toTs, requests, stop, late, newest,
                   weekly_df, latest, obv, result>>

\* Mutation: the handler catches ValueError only.
CatchesValueError(e) == e = "ValueError"

\* `except Exception` catches every exception a statement of the try can raise.
Catches(e) == TRUE

\* Lines 180-182.
GetIndicatorsExcept ==
    /\ pc = "except"
    /\ IF Catches(exc)
       THEN /\ result' = None
            /\ pc' = "done"
       ELSE /\ result' = result
            /\ pc' = "escaped"
    /\ exc' = "none"
    /\ UNCHANGED <<total_hours, all_data, toTs, requests, stop, late, newest,
                   fetch_raised, df, weekly_df, latest, obv>>

\* Lines 88-99: the empty check and the weekly resample.
GetIndicatorsResample ==
    /\ pc = "fetched"
    /\ IF df = <<>>
       THEN /\ result' = None
            /\ pc' = "done"
            /\ weekly_df' = weekly_df
       ELSE /\ weekly_df' = Resample(df)
            /\ pc' = "resampled"
            /\ result' = result
    /\ UNCHANGED <<total_hours, all_data, toTs, requests, stop, late, newest,
                   exc, fetch_raised, df, latest, obv>>

\* Lines 104-179: the indicator columns, the latest row and the mapping.
GetIndicatorsCompute ==
    /\ pc = "resampled"
    /\ \E emaAbove \in CloseAboveEMA(weekly_df, Len(weekly_df)),
          macdAbove \in MACDAboveSignal(weekly_df, Len(weekly_df)) :
          /\ latest' = LatestRow(weekly_df, emaAbove, macdAbove)
          /\ result' = Mapping(IndicatorMap(latest'))
    /\ obv' = OBVList(weekly_df, Len(weekly_df))
    /\ pc' = "done"
    /\ UNCHANGED <<total_hours, all_data, toTs, requests, stop, late, newest,
                   exc, fetch_raised, df, weekly_df>>

Next ==
    \/ RequestThrows
    \/ RequestNotSuccess
    \/ RequestEmpty
    \/ RequestPage
    \/ LoopExit
    \/ BuildFrame
    \/ GetIndicatorsExcept
    \/ GetIndicatorsResample
    \/ GetIndicatorsCompute

Spec == Init /\ [][Next]_vars

\* Every request returns or throws, and the interpreter runs the next statement.
FairSpec == Spec /\ WF_vars(Next)

-----------------------------------------------------------------------------
(* The weekly pipeline alone: get_indicators from line 104 on, started on  *)
(* weekly frames of up to MaxWeeks rows                                     *)

MaxWeeks == 22      \* longest weekly frame
MaxPattern == 2     \* longest repeating pattern of closes
MaxStep == 2        \* largest offset of a pattern entry

BasePrice == MaxWeeks + 2

RECURSIVE SeqsUpTo(_, _)
SeqsUpTo(S, n) ==
    IF n = 0 THEN {<<>>}
    ELSE LET shorter == SeqsUpTo(S, n - 1)
         IN  shorter \cup {Append(q, x) : q \in {r \in shorter : Len(r) = n - 1}, x \in S}

Patterns == SeqsUpTo(0..MaxStep, MaxPattern) \ {<<>>}

\* A weekly frame of n rows: the close repeats the pattern around a line of
\* slope drift, high and low lie spread above and below it, and the volume
\* alternates between vol and 2*vol.
WeeklyFrame(n, pat, drift, spread, vol) ==
    [i \in 1..n |->
        LET c == BasePrice + drift * i + pat[((i - 1) % Len(pat)) + 1]
        IN  [week |-> i, open |-> V(c), high |-> V(c + spread),
             low |-> V(c - spread), close |-> V(c),
             volume |-> V(vol * (1 + (i % 2)))]]

InitWeekly ==
    /\ pc = "resampled"
    /\ total_hours = 1
    /\ all_data = <<>>
    /\ toTs = <<>>
    /\ requests = 0
    /\ stop = "none"
    /\ late = FALSE
    /\ newest = <<>>
    /\ exc = "none"
    /\ fetch_raised = FALSE
    /\ df = <<>>
    /\ latest = <<>>
    /\ obv = <<>>
    /\ result = Unset
    /\ \E n \in 1..MaxWeeks, pat \in Patterns, drift \in {-1, 0, 1},
          spread \in {0, 1}, vol \in {0, 1, 3} :
          weekly_df = WeeklyFrame(n, pat, drift, spread, vol)

SpecWeekly == InitWeekly /\ [][GetIndicatorsCompute]_vars

-----------------------------------------------------------------------------
(* The resample alone: get_indicators lines 88-99, started on hourly       *)
(* frames that span up to MaxSpan weekly bins                              *)

MaxSpan == 3        \* weekly bins the hourly frame may touch
MaxSeed == 2        \* seeds of the synthetic prices

HoursPerWeek == WeekSeconds \div HourSeconds

\* Candidate hours: the first two hours and the last hour of each bin.
SlotHours ==
    {(TuesdayAnchor \div HourSeconds) + k * HoursPerWeek + o :
        k \in 0..(MaxSpan - 1), o \in {0, 1, HoursPerWeek - 1}}

RECURSIVE Ascending(_)
Ascending(H) ==
    IF H = {} THEN <<>>
    ELSE LET m == CHOOSE x \in H : \A y \in H : y <= x
         IN  Append(Ascending(H \ {m}), m)

\* The hourly frame of the hours H, ascending, with prices of seed s.
HourlyFrame(H, s) ==
    LET hs == Ascending(H)
    IN  [i \in 1..Len(hs) |-> SeedBar(hs[i], s + i)]

InitResample ==
    /\ pc = "fetched"
    /\ total_hours = 1
    /\ all_data = <<>>
    /\ toTs = <<>>
    /\ requests = 0
    /\ stop = "none"
    /\ late = FALSE
    /\ newest = <<>>
    /\ exc = "none"
    /\ fetch_raised = FALSE
    /\ weekly_df = <<>>
    /\ latest = <<>>
    /\ obv = <<>>
    /\ result = Unset
    /\ \E H \in (SUBSET SlotHours) \ {{}}, s \in 0..MaxSeed :
          df = HourlyFrame(H, s)

SpecResample == InitResample /\ [][GetIndicatorsResample]_vars

-----------------------------------------------------------------------------
(* Properties *)

Returned == pc = "done" /\ result.kind = "mapping"

\* C1: in the returned mapping every one of RSI, MACD, Stochastic, BB,
\* SMA20, EMA50, VWAP and ADX whose latest value is NaN (for Stochastic:
\* %K or %D) carries the Neutral label.
UndefinedIsNeutral ==
    Returned =>
        /\ IsNaN(latest.RSI_14) => result.map.RSI = Neutral
        /\ IsNaN(latest.MACD) => result.map.MACD = Neutral
        /\ (IsNaN(latest.STOCHk) \/ IsNaN(latest.STOCHd)) => result.map.Stochastic = Neutral
        /\ IsNaN(latest.BBL) => result.map.BB = Neutral
        /\ IsNaN(latest.SMA_20) => result.map.SMA20 = Neutral
        /\ IsNaN(latest.EMA_50) => result.map.EMA50 = Neutral
        /\ IsNaN(latest.VWAP) => result.map.VWAP = Neutral
        /\ IsNaN(latest.ADX_14) => result.map.ADX = Neutral

\* C2: when a page request has failed (exception, non-Success response or
\* empty page), fetch_full_ohlcv does not raise: it returns the Series of
\* the bars accumulated so far, also when there are none.
FetchReturnsAfterFailure ==
    stop # "none" => ~fetch_raised /\ pc # "except"

\* C3: no exception escapes get_indicators, and what it returns is None or
\* a mapping with all ten keys.
NoExceptionEscapes ==
    /\ pc # "escaped"
    /\ pc = "done" =>
          \/ result.kind = "None"
          \/ /\ result.kind = "mapping"
             /\ DOMAIN result.map =
                   {"RSI", "MACD", "Stochastic", "BB", "SMA20", "EMA50", "VWAP",
                    "ADX", "ATR", "OBV"}

\* C3 witness: the first page failed, the fetch raised, and get_indicators
\* returned None.
FailureReturnedNone ==
    pc = "done" /\ fetch_raised /\ stop # "none" /\ result.kind = "None"

\* C4: a returned mapping has exactly the ten keys, whatever the number of
\* weekly rows and whichever values are undefined.
KeySetFixed ==
    Returned =>
        DOMAIN result.map =
            {"RSI", "MACD", "Stochastic", "BB", "SMA20", "EMA50", "VWAP", "ADX",
             "ATR", "OBV"}

\* C4 witness: a mapping returned for a frame too short for RSI, SMA and ATR.
MappingWithUndefined ==
    /\ Returned
    /\ IsNaN(latest.RSI_14) /\ IsNaN(latest.SMA_20) /\ IsNaN(latest.ATRr_14)
    /\ result.map.ATR = NotAvailable

\* Sums of the gains and of the losses over the 14 rows ending at the latest.
GainSum == SumRange([j \in 1..Len(weekly_df) |-> Gain(weekly_df, j)],
                    Len(weekly_df) - RsiPeriod + 1, Len(weekly_df))
LossSum == SumRange([j \in 1..Len(weekly_df) |-> Loss(weekly_df, j)],
                    Len(weekly_df) - RsiPeriod + 1, Len(weekly_df))
\* The 14-row highest high equals the 14-row lowest low.
FlatRange ==
    \A i, j \in (Len(weekly_df) - StochPeriod + 1)..Len(weekly_df) :
        Hi(weekly_df, i) = Lo(weekly_df, j)
FullWindow == Len(weekly_df) >= RsiPeriod

\* C5 (as stated): when the 14-period average loss is 0 the latest RSI is
\* NaN and labelled Neutral, and when the 14-period highest high equals the
\* lowest low the latest %K is NaN and Stochastic is labelled Neutral.
ZeroDenominatorUndefined ==
    (Returned /\ FullWindow) =>
        /\ LossSum = 0 => IsNaN(latest.RSI_14) /\ result.map.RSI = Neutral
        /\ FlatRange => IsNaN(latest.STOCHk) /\ result.map.Stochastic = Neutral

\* C5 (amended): with average loss 0 and average gain 0 the latest RSI is
\* NaN and labelled Neutral; with average loss 0 and a positive average gain
\* the latest RSI is the defined value 100 and labelled Bullish; when the
\* highest high equals the lowest low %K is NaN and Stochastic is Neutral.
ZeroDenominatorResolved ==
    (Returned /\ FullWindow) =>
        /\ (LossSum = 0 /\ GainSum = 0) =>
              IsNaN(latest.RSI_14) /\ result.map.RSI = Neutral
        /\ (LossSum = 0 /\ GainSum > 0) =>
              /\ ~IsNaN(latest.RSI_14)
              /\ ~FGt(latest.RSI_14, V(100)) /\ ~FLt(latest.RSI_14, V(100))
              /\ result.map.RSI = Bullish
        /\ FlatRange => IsNaN(latest.STOCHk) /\ result.map.Stochastic = Neutral

\* C5 witness: 14 rising rows, no loss in the window, a mapping returned.
AllGainsClassified ==
    Returned /\ FullWindow /\ LossSum = 0 /\ GainSum > 0

StrictlyAscendingTimes(rows) ==
    \A i, j \in 1..Len(rows) : i < j => rows[i].time < rows[j].time

\* C6: the accumulated bars and the returned Series have strictly
\* increasing timestamps (hence no duplicate) after any number of pages.
TimestampsStrictlyIncreasing ==
    StrictlyAscendingTimes(all_data) /\ StrictlyAscendingTimes(df)

\* C6 witness: two pages accumulated and a truncated Series returned.
TwoPagesReturned ==
    pc = "fetched" /\ requests >= 2 /\ Len(all_data) > Len(df) /\ Len(df) >= 2

ClosesRising ==
    \A i \in 2..Len(weekly_df) : Cl(weekly_df, i) > Cl(weekly_df, i - 1)
ClosesFalling ==
    \A i \in 2..Len(weekly_df) : Cl(weekly_df, i) < Cl(weekly_df, i - 1)

\* C7: OBV has one entry per weekly row, starts at 0, moves by +volume on a
\* rise of the close, by -volume on a fall and not at all on a flat close;
\* it is non-decreasing for strictly increasing closes and non-increasing
\* for strictly decreasing closes.
OBVScan ==
    pc = "done" =>
        /\ Len(obv) = Len(weekly_df)
        /\ obv[1] = 0
        /\ \A i \in 2..Len(obv) :
              obv[i] - obv[i - 1] =
                  Sign(Cl(weekly_df, i) - Cl(weekly_df, i - 1)) * Vol(weekly_df, i)
        /\ ClosesRising => \A i \in 2..Len(obv) : obv[i] >= obv[i - 1]
        /\ ClosesFalling => \A i \in 2..Len(obv) : obv[i] <= obv[i - 1]

\* C7 witness: at least three strictly rising rows with volume, OBV computed.
RisingOBVComputed ==
    pc = "done" /\ Len(weekly_df) >= 3 /\ ClosesRising /\ obv[Len(obv)] > 0

\* Indexes of the rows of df in the weekly bin k.
InBin(k) == {i \in 1..Len(df) : Period(df[i].time) = k}
UsedBins == {Period(df[i].time) : i \in 1..Len(df)}
Least(S) == CHOOSE x \in S : \A y \in S : x <= y
Greatest(S) == CHOOSE x \in S : \A y \in S : x >= y
RECURSIVE VolumeOf(_)
VolumeOf(S) ==
    IF S = {} THEN 0
    ELSE LET i == CHOOSE x \in S : TRUE IN df[i].volume + VolumeOf(S \ {i})

\* C8: every weekly bin holding an hourly row yields exactly one weekly row
\* with open of the first row, greatest high, least low, close of the last
\* row and the sum of the volumes; a bin without rows yields none; the
\* weekly rows are in ascending order.
ResampleAggregates ==
    pc = "resampled" =>
        /\ \A k \in UsedBins :
              /\ Cardinality({i \in 1..Len(weekly_df) : weekly_df[i].week = k}) = 1
              /\ \A i \in 1..Len(weekly_df) :
                    weekly_df[i].week = k =>
                        /\ weekly_df[i].open = V(df[Least(InBin(k))].open)
                        /\ weekly_df[i].close = V(df[Greatest(InBin(k))].close)
                        /\ weekly_df[i].high =
                              V(Greatest({df[j].high : j \in InBin(k)}))
                        /\ weekly_df[i].low = V(Least({df[j].low : j \in InBin(k)}))
                        /\ weekly_df[i].volume = V(VolumeOf(InBin(k)))
        /\ \A i \in 1..Len(weekly_df) : weekly_df[i].week \in UsedBins
        /\ \A i \in 2..Len(weekly_df) : weekly_df[i - 1].week < weekly_df[i].week

\* C8 witness: rows in two bins with an empty bin between them.
GapWeekResampled ==
    /\ pc = "resampled"
    /\ Len(df) >= 4
    /\ Len(weekly_df) = 2
    /\ weekly_df[2].week = weekly_df[1].week + 2

\* C9: the loop terminates; an iteration that stays in the loop has added
\* at least one bar; no request is issued once total_hours bars are held or
\* a break has run.
PaginationTerminates ==
    /\ <>(pc # "while")
    /\ [][(pc = "while" /\ pc' = "while") => Len(all_data') > Len(all_data)]_vars
    /\ [](~late)

\* C9 witness: the loop was left after two pages, with the count reached.
CountReachedAfterTwoPages ==
    pc = "build" /\ requests = 2 /\ stop = "none" /\ Len(all_data) >= total_hours

\* C10: the returned Series ends with the most recent bar received, the
\* last bar of the first page, also when it was cut down to total_hours.
ReturnsNewestBar ==
    pc = "fetched" => df[Len(df)].time = newest[1]

====
